---- MODULE Spec2Model ----
(***************************************************************************)
(* Model of tools/mqtt_subscriber.py: the three paho-mqtt callbacks        *)
(* (on_connect, on_disconnect, on_message) and main, driven by the         *)
(* transport events that the client library's loop_forever delivers.       *)
(*                                                                         *)
(* Representation.                                                         *)
(*   - A payload (bytes) is a sequence of lexemes.  A lexeme is a record   *)
(*     with a tag field t: the JSON punctuation "{", "}", "[", "]", ",",   *)
(*     ":", white space "ws", the scalars "num", "str", "bool", "null",    *)
(*     "word" (text that is no JSON lexeme) and "bad" (a byte sequence     *)
(*     that is not valid UTF-8).                                           *)
(*   - A number is an integer count of tenths: 23.5 is 235, and the        *)
(*     literals 50, 100, 150 of the source are 500, 1000, 1500.  A "num"   *)
(*     lexeme also says whether it was written as an integer (int), which  *)
(*     str() shows ("2" against "2.0").                                    *)
(*   - A decoded JSON value is a tagged record too: the scalars are their  *)
(*     lexemes, a dict is [t |-> "obj", o |-> sequence of [k, v]] in       *)
(*     insertion order, a list is [t |-> "list", l |-> sequence].          *)
(*   - A printed line is a record with a label l and the rendered parts.   *)
(*     datetime.now() is not modelled: the header line carries the topic.  *)
(***************************************************************************)
EXTENDS Integers, Sequences, FiniteSets, TLC

\* ------------------------------------------------------------------ lexemes
LB == [t |-> "{"]
RB == [t |-> "}"]
LK == [t |-> "["]
RK == [t |-> "]"]
CM == [t |-> ","]
CL == [t |-> ":"]
BadByte == [t |-> "bad"]
Null == [t |-> "null"]
WS(n) == [t |-> "ws", n |-> n]
FltNum(n) == [t |-> "num", n |-> n, int |-> FALSE]
IntNum(k) == [t |-> "num", n |-> 10 * k, int |-> TRUE]
Str(s) == [t |-> "str", s |-> s]
Bool(b) == [t |-> "bool", b |-> b]
Word(s) == [t |-> "word", s |-> s]
Obj(members) == [t |-> "obj", o |-> members]
List(elems) == [t |-> "list", l |-> elems]

IsScalar(v) == v.t \in {"num", "str", "bool", "null"}

\* ------------------------------------------------- bytes.decode(), json.loads
\* msg.payload.decode(): strict UTF-8; any invalid byte raises UnicodeDecodeError.
decode(payload) ==
    IF \E i \in 1..Len(payload) : payload[i].t = "bad"
    THEN [exc |-> "UnicodeDecodeError", text |-> <<>>]
    ELSE [exc |-> "none", text |-> payload]

ParseFail == [ok |-> FALSE, val |-> Null, next |-> 0]

\* dict[k] = v: a repeated key keeps its first position and takes the last value.
RECURSIVE DictSet(_, _, _)
DictSet(members, k, v) ==
    IF members = <<>> THEN << [k |-> k, v |-> v] >>
    ELSE IF Head(members).k = k THEN << [k |-> k, v |-> v] >> \o Tail(members)
    ELSE << Head(members) >> \o DictSet(Tail(members), k, v)

RECURSIVE ParseValueAt(_, _), ParseMembers(_, _, _), ParseElems(_, _, _)
ParseValueAt(s, i) ==
    IF i > Len(s) THEN ParseFail
    ELSE IF IsScalar(s[i]) THEN [ok |-> TRUE, val |-> s[i], next |-> i + 1]
    ELSE IF s[i].t = "{" THEN
        IF i + 1 <= Len(s) /\ s[i + 1].t = "}"
        THEN [ok |-> TRUE, val |-> Obj(<<>>), next |-> i + 2]
        ELSE ParseMembers(s, i + 1, <<>>)
    ELSE IF s[i].t = "[" THEN
        IF i + 1 <= Len(s) /\ s[i + 1].t = "]"
        THEN [ok |-> TRUE, val |-> List(<<>>), next |-> i + 2]
        ELSE ParseElems(s, i + 1, <<>>)
    ELSE ParseFail

ParseMembers(s, i, acc) ==
    IF i + 1 > Len(s) \/ s[i].t # "str" \/ s[i + 1].t # ":" THEN ParseFail
    ELSE LET r == ParseValueAt(s, i + 2) IN
        IF ~r.ok \/ r.next > Len(s) THEN ParseFail
        ELSE LET acc2 == DictSet(acc, s[i].s, r.val) IN
            IF s[r.next].t = "," THEN ParseMembers(s, r.next + 1, acc2)
            ELSE IF s[r.next].t = "}"
                 THEN [ok |-> TRUE, val |-> Obj(acc2), next |-> r.next + 1]
                 ELSE ParseFail

ParseElems(s, i, acc) ==
    LET r == ParseValueAt(s, i) IN
    IF ~r.ok \/ r.next > Len(s) THEN ParseFail
    ELSE LET acc2 == Append(acc, r.val) IN
        IF s[r.next].t = "," THEN ParseElems(s, r.next + 1, acc2)
        ELSE IF s[r.next].t = "]"
             THEN [ok |-> TRUE, val |-> List(acc2), next |-> r.next + 1]
             ELSE ParseFail

NotWS(tok) == tok.t # "ws"

\* json.loads(text): one value, white space allowed around lexemes, nothing after
\* it; anything else raises JSONDecodeError.
json_loads(text) ==
    LET s == SelectSeq(text, NotWS)
        r == ParseValueAt(s, 1)
    IN IF r.ok /\ r.next = Len(s) + 1
       THEN [exc |-> "none", val |-> r.val]
       ELSE [exc |-> "JSONDecodeError", val |-> Null]

\* json.dumps(value, indent=2): each member or element on a line of its own,
\* indented two columns per level; an empty dict or list stays "{}" or "[]".
RECURSIVE Dumps(_, _), DumpMembers(_, _), DumpElems(_, _)
Dumps(v, level) ==
    IF IsScalar(v) THEN << v >>
    ELSE IF v.t = "obj" THEN
        IF v.o = <<>> THEN << LB, RB >>
        ELSE << LB >> \o DumpMembers(v.o, level + 1) \o << WS(2 * level), RB >>
    ELSE
        IF v.l = <<>> THEN << LK, RK >>
        ELSE << LK >> \o DumpElems(v.l, level + 1) \o << WS(2 * level), RK >>

DumpMembers(members, level) ==
    LET m == Head(members)
        one == << WS(2 * level), Str(m.k), CL >> \o Dumps(m.v, level)
    IN IF Len(members) = 1 THEN one
       ELSE one \o << CM >> \o DumpMembers(Tail(members), level)

DumpElems(elems, level) ==
    LET one == << WS(2 * level) >> \o Dumps(Head(elems), level)
    IN IF Len(elems) = 1 THEN one
       ELSE one \o << CM >> \o DumpElems(Tail(elems), level)

json_dumps(v) == Dumps(v, 0)

\* ------------------------------------------------------------ Python values
Abs(n) == IF n < 0 THEN 0 - n ELSE n
Sign(n) == IF n < 0 THEN "-" ELSE ""

\* format(x, ".<prec>f") of a number of n tenths, prec in 0..2: round-half-even
\* to a whole number for prec 0 (a half is exact in binary), exact otherwise.
Fixed(n, prec) ==
    LET q == Abs(n) \div 10
        r == Abs(n) % 10
        up == r > 5 \/ (r = 5 /\ q % 2 = 1)
    IN IF prec = 0 THEN Sign(n) \o ToString(IF up THEN q + 1 ELSE q)
       ELSE IF prec = 1 THEN Sign(n) \o ToString(q) \o "." \o ToString(r)
       ELSE Sign(n) \o ToString(q) \o "." \o ToString(r) \o "0"

\* f"{x:.<prec>f}": float.__format__ and int.__format__ (bool is an int) accept
\* the code; str.__format__ raises ValueError (unknown format code 'f'); None,
\* list and dict raise TypeError (unsupported format string).
format_f(v, prec) ==
    IF v.t = "num" THEN [exc |-> "none", text |-> Fixed(v.n, prec)]
    ELSE IF v.t = "bool"
         THEN [exc |-> "none", text |-> Fixed(IF v.b THEN 10 ELSE 0, prec)]
    ELSE IF v.t = "str" THEN [exc |-> "ValueError", text |-> ""]
    ELSE [exc |-> "TypeError", text |-> ""]

\* f"{x}": str(x).  A list or dict shows its repr, strings inside in quotes.
RECURSIVE PyRepr(_), PyReprElems(_), PyReprMembers(_)
PyStrScalar(v) ==
    IF v.t = "str" THEN v.s
    ELSE IF v.t = "bool" THEN (IF v.b THEN "True" ELSE "False")
    ELSE IF v.t = "null" THEN "None"
    ELSE IF v.int THEN Sign(v.n) \o ToString(Abs(v.n) \div 10)
    ELSE Fixed(v.n, 1)

PyRepr(v) ==
    IF v.t = "str" THEN "'" \o v.s \o "'"
    ELSE IF IsScalar(v) THEN PyStrScalar(v)
    ELSE IF v.t = "list" THEN "[" \o PyReprElems(v.l) \o "]"
    ELSE "{" \o PyReprMembers(v.o) \o "}"

PyReprElems(elems) ==
    IF elems = <<>> THEN ""
    ELSE IF Len(elems) = 1 THEN PyRepr(Head(elems))
    ELSE PyRepr(Head(elems)) \o ", " \o PyReprElems(Tail(elems))

PyReprMembers(members) ==
    IF members = <<>> THEN ""
    ELSE LET one == "'" \o Head(members).k \o "': " \o PyRepr(Head(members).v)
         IN IF Len(members) = 1 THEN one
            ELSE one \o ", " \o PyReprMembers(Tail(members))

PyStr(v) == IF IsScalar(v) THEN PyStrScalar(v) ELSE PyRepr(v)

HasKey(p, key) == p.t = "obj" /\ \E i \in 1..Len(p.o) : p.o[i].k = key
Lookup(p, key) == p.o[CHOOSE i \in 1..Len(p.o) : p.o[i].k = key].v

\* payload.get(key, default): only a dict has get; any other JSON value raises
\* AttributeError.
payload_get(p, key, default) ==
    IF p.t # "obj" THEN [exc |-> "AttributeError", val |-> default]
    ELSE IF HasKey(p, key) THEN [exc |-> "none", val |-> Lookup(p, key)]
    ELSE [exc |-> "none", val |-> default]

\* x <= bound for a number of the model (bound in tenths): int, float and bool
\* compare; str, None, list and dict raise TypeError.
IsNumeric(v) == v.t \in {"num", "bool"}
NumberOf(v) == IF v.t = "num" THEN v.n ELSE IF v.b THEN 10 ELSE 0

\* x == "online"
EqualsStr(v, s) == v.t = "str" /\ v.s = s

\* ---------------------------------------------------------------- registry
TOPICS ==
    << << "sensor/bme680/data", 0 >>,
       << "sensor/bme680/iaq", 0 >>,
       << "sensor/bme680/status", 0 >>,
       << "sensor/bme680/alert", 0 >> >>

NA == Str("N/A")

\* ------------------------------------------------------- on_message, by step
\* A step is one statement of a branch: it raises (exc) or prints its lines.
Raise(exc) == [exc |-> exc, lines |-> <<>>]
Emit(line) == [exc |-> "none", lines |-> << line >>]
Pass == [exc |-> "none", lines |-> <<>>]

\* Mutant of RunSteps: a branch that raises prints none of its lines.
RECURSIVE FirstRaised(_), AllLines(_)
FirstRaised(steps) ==
    IF steps = <<>> THEN "none"
    ELSE IF Head(steps).exc # "none" THEN Head(steps).exc
    ELSE FirstRaised(Tail(steps))

AllLines(steps) ==
    IF steps = <<>> THEN <<>> ELSE Head(steps).lines \o AllLines(Tail(steps))

RunStepsAtomic(steps) ==
    IF FirstRaised(steps) = "none" THEN [exc |-> "none", lines |-> AllLines(steps)]
    ELSE Raise(FirstRaised(steps))

\* The statements run in order; the first one that raises ends the branch, and
\* what the earlier ones printed stays printed.
RECURSIVE RunSteps(_)
RunSteps(steps) ==
    IF steps = <<>> THEN Pass
    ELSE IF Head(steps).exc # "none" THEN Head(steps)
    ELSE LET rest == RunSteps(Tail(steps))
         IN [exc |-> rest.exc, lines |-> Head(steps).lines \o rest.lines]

\* print(f"<label> : {payload.get(key, 'N/A'):.<prec>f} <unit>")
PrintFixed(p, key, prec, label, unit) ==
    LET g == payload_get(p, key, NA)
        f == format_f(g.val, prec)
    IN IF g.exc # "none" THEN Raise(g.exc)
       ELSE IF f.exc # "none" THEN Raise(f.exc)
       ELSE Emit([l |-> label, v |-> f.text, u |-> unit])

\* print(f"<label> : {payload.get(key, default)}")
PrintPlain(p, key, default, label) ==
    LET g == payload_get(p, key, default)
    IN IF g.exc # "none" THEN Raise(g.exc)
       ELSE Emit([l |-> label, v |-> PyStr(g.val)])

\* x = payload.get(key, default), printing nothing
Assign(p, key, default) ==
    LET g == payload_get(p, key, default)
    IN IF g.exc # "none" THEN Raise(g.exc) ELSE Pass

DataSteps(p) ==
    << PrintFixed(p, "temperature", 2, "Temperature", "C"),
       PrintFixed(p, "humidity", 2, "Humidity", "%"),
       PrintFixed(p, "pressure", 2, "Pressure", "hPa"),
       PrintFixed(p, "gas_resistance", 0, "Gas Resist.", "Ohms"),
       PrintPlain(p, "gas_valid", NA, "Gas Valid") >>

\* Mutant of Indicator: exclusive upper bounds (< in place of <=).
IndicatorExclusive(score) ==
    IF ~IsNumeric(score) THEN [exc |-> "TypeError", ind |-> ""]
    ELSE IF NumberOf(score) < 500 THEN [exc |-> "none", ind |-> "green"]
    ELSE IF NumberOf(score) < 1000 THEN [exc |-> "none", ind |-> "yellow"]
    ELSE IF NumberOf(score) < 1500 THEN [exc |-> "none", ind |-> "orange"]
    ELSE [exc |-> "none", ind |-> "red"]

\* The if/elif chain on iaq_score; a value that does not order against an int
\* raises TypeError at the first comparison.
Indicator(score) ==
    IF ~IsNumeric(score) THEN [exc |-> "TypeError", ind |-> ""]
    ELSE IF NumberOf(score) <= 500 THEN [exc |-> "none", ind |-> "green"]
    ELSE IF NumberOf(score) <= 1000 THEN [exc |-> "none", ind |-> "yellow"]
    ELSE IF NumberOf(score) <= 1500 THEN [exc |-> "none", ind |-> "orange"]
    ELSE [exc |-> "none", ind |-> "red"]

\* print(f"{indicator} IAQ Score    : {iaq_score:.1f} [{iaq_text}]")
PrintScore(iaq_score, iaq_text) ==
    LET c == Indicator(iaq_score)
        f == format_f(iaq_score, 1)
    IN IF c.exc # "none" THEN Raise(c.exc)
       ELSE IF f.exc # "none" THEN Raise(f.exc)
       ELSE Emit([l |-> "IAQ Score", ind |-> c.ind, v |-> f.text,
                   txt |-> PyStr(iaq_text)])

IaqSteps(p) ==
    << Assign(p, "iaq_score", IntNum(0)),
       Assign(p, "iaq_text", Str("Unknown")),
       PrintScore(payload_get(p, "iaq_score", IntNum(0)).val,
                  payload_get(p, "iaq_text", Str("Unknown")).val),
       PrintPlain(p, "iaq_level", NA, "IAQ Level"),
       PrintPlain(p, "accuracy", NA, "Accuracy"),
       PrintFixed(p, "co2_equivalent", 0, "CO2 Equiv.", "ppm"),
       PrintFixed(p, "voc_equivalent", 2, "VOC Equiv.", "ppm"),
       PrintPlain(p, "is_calibrated", NA, "Calibrated") >>

\* Mutant of StatusIcon: the comparison ignores case.
StatusIconCaseless(status) ==
    IF EqualsStr(status, "online") \/ EqualsStr(status, "Online") THEN "green"
    ELSE "red"

\* icon = green if status == "online" else red
StatusIcon(status) == IF EqualsStr(status, "online") THEN "green" ELSE "red"

StatusSteps(p) ==
    << Assign(p, "status", Str("unknown")),
       Assign(p, "client_id", Str("unknown")),
       Emit([l |-> "Status",
              ind |-> StatusIcon(payload_get(p, "status", Str("unknown")).val),
              v |-> PyStr(payload_get(p, "status", Str("unknown")).val)]),
       PrintPlain(p, "client_id", Str("unknown"), "Client ID") >>

AlertSteps(p) ==
    << PrintPlain(p, "type", NA, "Alert Type"),
       PrintPlain(p, "message", NA, "Message"),
       PrintPlain(p, "client_id", NA, "Client ID") >>

\* print(f"Payload: {json.dumps(payload, indent=2)}")
FallbackSteps(p) == << Emit([l |-> "Payload", doc |-> json_dumps(p)]) >>

\* Mutant of BranchOf: the Data topic is matched without regard to case.
BranchOfCaseless(topic) ==
    IF topic \in {"sensor/bme680/data", "Sensor/BME680/Data"} THEN "data"
    ELSE IF topic = "sensor/bme680/iaq" THEN "iaq"
    ELSE IF topic = "sensor/bme680/status" THEN "status"
    ELSE IF topic = "sensor/bme680/alert" THEN "alert"
    ELSE "fallback"

\* The if/elif chain on the topic: exact string equality, else the fallback.
BranchOf(topic) ==
    IF topic = "sensor/bme680/data" THEN "data"
    ELSE IF topic = "sensor/bme680/iaq" THEN "iaq"
    ELSE IF topic = "sensor/bme680/status" THEN "status"
    ELSE IF topic = "sensor/bme680/alert" THEN "alert"
    ELSE "fallback"

BranchSteps(topic, p) ==
    IF BranchOf(topic) = "data" THEN DataSteps(p)
    ELSE IF BranchOf(topic) = "iaq" THEN IaqSteps(p)
    ELSE IF BranchOf(topic) = "status" THEN StatusSteps(p)
    ELSE IF BranchOf(topic) = "alert" THEN AlertSteps(p)
    ELSE FallbackSteps(p)

Rule == [l |-> "rule"]
Header(topic) == << Rule, [l |-> "Topic", v |-> topic], Rule >>

\* The try block: decode, parse, print the header, run the topic's branch.
TryBlock(topic, payload) ==
    LET d == decode(payload)
        j == json_loads(d.text)
        b == RunSteps(BranchSteps(topic, j.val))
    IN IF d.exc # "none" THEN Raise(d.exc)
       ELSE IF j.exc # "none" THEN Raise(j.exc)
       ELSE [exc |-> b.exc, lines |-> Header(topic) \o b.lines]

\* Mutant of CaughtByExceptException: "except ValueError" in its place.
CaughtByExceptValueError(exc) ==
    exc \in {"JSONDecodeError", "UnicodeDecodeError", "ValueError"}

\* The classes that "except Exception" catches: every exception the try block
\* can raise derives from Exception (JSONDecodeError and UnicodeDecodeError
\* through ValueError).
CaughtByExceptException(exc) ==
    exc \in {"JSONDecodeError", "UnicodeDecodeError", "ValueError", "TypeError",
             "AttributeError"}

RawLine(payload) == [l |-> "Raw message", text |-> decode(payload).text]
ErrorLine(exc) == [l |-> "Error processing message", v |-> exc]

\* Mutant of on_message: no "except json.JSONDecodeError" clause, so malformed
\* text falls to "except Exception".
on_message_without_raw(topic, payload) ==
    LET r == TryBlock(topic, payload)
    IN IF r.exc = "none"
       THEN [out |-> r.lines, subs |-> <<>>, raised |-> "none"]
       ELSE [out |-> r.lines \o << ErrorLine(r.exc) >>, subs |-> <<>>,
             raised |-> "none"]

\* on_message(client, userdata, msg): what it prints (out), the subscribe
\* requests it issues (subs) and the exception that leaves it (raised).
on_message(topic, payload) ==
    LET r == TryBlock(topic, payload)
    IN IF r.exc = "none"
       THEN [out |-> r.lines, subs |-> <<>>, raised |-> "none"]
       ELSE IF r.exc = "JSONDecodeError"
       THEN [out |-> r.lines \o << RawLine(payload) >>, subs |-> <<>>,
             raised |-> "none"]
       ELSE IF CaughtByExceptException(r.exc)
       THEN [out |-> r.lines \o << ErrorLine(r.exc) >>, subs |-> <<>>,
             raised |-> "none"]
       ELSE [out |-> r.lines, subs |-> <<>>, raised |-> r.exc]

\* Mutant of on_connect: the subscribe loop runs whatever rc is.
on_connect_ignoring_rc(rc) ==
    [out |-> << [l |-> "Connected"] >>, subs |-> TOPICS, raised |-> "none"]

\* on_connect(client, userdata, flags, rc): rc == 0 subscribes to every entry of
\* TOPICS in order and prints a line for each; any other rc prints the failure.
RECURSIVE SubscribedLines(_)
SubscribedLines(topics) ==
    IF topics = <<>> THEN <<>>
    ELSE << [l |-> "Subscribed to", v |-> Head(topics)[1]] >>
         \o SubscribedLines(Tail(topics))

on_connect(rc) ==
    IF rc = 0
    THEN [out |-> << Rule, [l |-> "Connected"], Rule >> \o SubscribedLines(TOPICS)
                  \o << Rule, [l |-> "Waiting for sensor data"] >>,
          subs |-> TOPICS, raised |-> "none"]
    ELSE [out |-> << [l |-> "Failed to connect", v |-> ToString(rc)] >>,
          subs |-> <<>>, raised |-> "none"]

\* Mutant of on_disconnect: it subscribes again itself.
on_disconnect_resubscribing(rc) ==
    [out |-> << [l |-> "Disconnected", v |-> ToString(rc)] >>, subs |-> TOPICS,
     raised |-> "none"]

\* on_disconnect(client, userdata, rc, *args): one line, nothing else.
on_disconnect(rc) ==
    [out |-> << [l |-> "Disconnected", v |-> ToString(rc)] >>, subs |-> <<>>,
     raised |-> "none"]

\* ------------------------------------------------------------------ inputs
\* The most successful connections of one run.
MaxConnects == 2
\* The most fields of one document that are absent or of the wrong type.
MaxDeviations == 2

\* The bytes of the JSON object with the given members (key, scalar lexeme).
RECURSIVE MemberLexemes(_)
MemberLexemes(ms) ==
    IF ms = <<>> THEN <<>>
    ELSE << Str(Head(ms).k), CL, Head(ms).v >>
         \o (IF Len(ms) > 1 THEN << CM >> ELSE <<>>)
         \o MemberLexemes(Tail(ms))

Doc(ms) == << LB >> \o MemberLexemes(ms) \o << RB >>

\* The members left of fields (a sequence of [k, v]) under choice c, which makes
\* each field "ok", "absent" or "str" (a string where a number belongs).
RECURSIVE Chosen(_, _, _)
Chosen(fields, c, i) ==
    IF i > Len(fields) THEN <<>>
    ELSE (IF c[i] = "absent" THEN <<>>
          ELSE IF c[i] = "str" THEN << [k |-> fields[i].k, v |-> Str("high")] >>
          ELSE << fields[i] >>)
         \o Chosen(fields, c, i + 1)

Choices(fields) ==
    { c \in [1..Len(fields) -> {"ok", "absent", "str"}] :
        Cardinality({ i \in 1..Len(fields) : c[i] # "ok" }) <= MaxDeviations }

Variants(fields) == { Doc(Chosen(fields, c, 1)) : c \in Choices(fields) }

DataFields ==
    << [k |-> "temperature", v |-> FltNum(235)],
       [k |-> "humidity", v |-> FltNum(456)],
       [k |-> "pressure", v |-> FltNum(10132)],
       [k |-> "gas_resistance", v |-> FltNum(500005)],
       [k |-> "gas_valid", v |-> Bool(TRUE)] >>

\* Index scores in tenths, around each threshold, and values that are no number.
Scores ==
    { FltNum(n) : n \in {-10, 0, 499, 501, 505, 999, 1001, 1499, 1501, 3000} }
    \cup { IntNum(k) : k \in {50, 51, 100, 101, 150, 151} }
    \cup { Bool(TRUE), Str("high"), Null }

IaqHead(score) ==
    << [k |-> "iaq_score", v |-> score],
       [k |-> "iaq_level", v |-> IntNum(2)],
       [k |-> "accuracy", v |-> IntNum(3)] >>

IaqTail ==
    << [k |-> "iaq_text", v |-> Str("Good")],
       [k |-> "co2_equivalent", v |-> FltNum(6125)],
       [k |-> "voc_equivalent", v |-> FltNum(7)],
       [k |-> "is_calibrated", v |-> Bool(TRUE)] >>

IaqDocs ==
    { Doc(IaqHead(sc) \o IaqTail) : sc \in Scores }
    \cup { Doc(IaqHead(IntNum(75)) \o Chosen(IaqTail, c, 1)) : c \in Choices(IaqTail) }
    \cup { Doc(Tail(IaqHead(Null)) \o Chosen(IaqTail, c, 1)) : c \in Choices(IaqTail) }
    \cup { Doc(<<>>), Doc(<< IaqHead(IntNum(40))[1] >>) }

StatusDocs ==
    { Doc(st \o cl) :
        st \in { <<>> } \cup { << [k |-> "status", v |-> x] >> :
                   x \in { Str("online"), Str("offline"), Str("Online"),
                           Str("online "), IntNum(1), Bool(TRUE), Null } },
        cl \in { <<>>, << [k |-> "client_id", v |-> Str("esp32-01")] >>,
                 << [k |-> "client_id", v |-> IntNum(7)] >> } }

AlertFields ==
    << [k |-> "type", v |-> Str("high_voc")],
       [k |-> "message", v |-> Str("VOC threshold exceeded")],
       [k |-> "client_id", v |-> Str("esp32-01")] >>

OnlineDoc ==
    Doc(<< [k |-> "status", v |-> Str("online")],
           [k |-> "client_id", v |-> Str("esp32-01")] >>)

\* Documents sent on every topic: objects, JSON values that are no object, text
\* that is no JSON, and bytes that are no text.
NonObjects ==
    { << IntNum(5) >>, << Str("hello") >>, << Null >>,
      << LK, IntNum(1), CM, Str("z"), RK >> }

NestedDoc ==
    << LB, Str("status"), CL, LB, Str("a"), CL, LK, IntNum(1), RK, RB, CM,
       WS(1), Str("temperature"), CL, Null, RB >>

Malformed ==
    { <<>>, << Word("hello") >>, SubSeq(OnlineDoc, 1, Len(OnlineDoc) - 1),
      << LB, Str("a"), CL, IntNum(1), CM, RB >>, OnlineDoc \o << RB >> }

NotUtf8 ==
    { << BadByte >>, << LB, Str("status"), CL, BadByte, RB >> }

AnyTopicDocs ==
    { OnlineDoc, Doc(DataFields), NestedDoc }
    \cup NonObjects \cup Malformed \cup NotUtf8

RegistryTopics == { TOPICS[i][1] : i \in 1..Len(TOPICS) }

\* Topics that are in no registry entry: a prefix, a suffix, case variants.
OtherTopics ==
    { "sensor/bme680/dat", "sensor/bme680/data/", "Sensor/BME680/Data",
      "sensor/bme680/status/esp32-01" }

Messages ==
    ({ "sensor/bme680/data" } \X Variants(DataFields))
    \cup ({ "sensor/bme680/iaq" } \X IaqDocs)
    \cup ({ "sensor/bme680/status" } \X StatusDocs)
    \cup ({ "sensor/bme680/alert" } \X Variants(AlertFields))
    \cup ((RegistryTopics \cup OtherTopics) \X AnyTopicDocs)

\* Each message of the model with what on_message does on it, computed once.
Deliveries ==
    { [topic |-> m[1], payload |-> m[2], r |-> on_message(m[1], m[2])] :
        m \in Messages }

\* CONNACK return codes: 0 accepted, 1..5 refused.
ReturnCodes == 0..5

\* ------------------------------------------------------------------- state
VARIABLES
    pc,              \* where main is: "start", "loop" (loop_forever), "exited"
    exitCode,        \* the process's exit status once pc = "exited"
    connected,       \* the transport holds a broker connection
    nConnects,       \* successful connections so far
    subscribeCalls,  \* every client.subscribe(topic, qos) of the run, in order
    event,           \* the last event delivered: [kind, rc, topic, payload]
    out,             \* the lines the last handler printed
    subs,            \* the subscribe requests the last handler issued
    raised           \* the exception that left the last handler, or "none"

vars == << pc, exitCode, connected, nConnects, subscribeCalls, event, out, subs,
           raised >>

Event(kind, rc, topic, payload) ==
    [kind |-> kind, rc |-> rc, topic |-> topic, payload |-> payload]

Banner == << Rule, [l |-> "BME680 MQTT Subscriber"], Rule, [l |-> "Connecting to"] >>

Init ==
    /\ pc = "start"
    /\ exitCode = 0
    /\ connected = FALSE
    /\ nConnects = 0
    /\ subscribeCalls = <<>>
    /\ event = Event("none", 0, "", <<>>)
    /\ out = <<>>
    /\ subs = <<>>
    /\ raised = "none"

\* main: the banner, the client and its callbacks, client.connect succeeds and
\* loop_forever starts.
MainConnect ==
    /\ pc = "start"
    /\ pc' = "loop"
    /\ out' = Banner
    /\ event' = Event("main", 0, "", <<>>)
    /\ UNCHANGED << exitCode, connected, nConnects, subscribeCalls, subs, raised >>

\* main: client.connect raises (refused, unreachable): the error is printed and
\* sys.exit(1).
MainConnectError ==
    /\ pc = "start"
    /\ pc' = "exited"
    /\ exitCode' = 1
    /\ out' = Banner \o << [l |-> "Error"] >>
    /\ event' = Event("main", 0, "", <<>>)
    /\ UNCHANGED << connected, nConnects, subscribeCalls, subs, raised >>

\* One callback invocation from loop_forever, with result r.  An exception that
\* leaves the callback leaves loop_forever too: main prints it and exits 1.
Deliver(r) ==
    /\ out' = r.out
    /\ subs' = r.subs
    /\ raised' = r.raised
    /\ subscribeCalls' = subscribeCalls \o r.subs
    /\ pc' = IF r.raised = "none" THEN "loop" ELSE "exited"
    /\ exitCode' = IF r.raised = "none" THEN exitCode ELSE 1

\* The broker answers a connection attempt (the first or a reconnection).
Connect(rc) ==
    /\ pc = "loop"
    /\ ~connected
    /\ nConnects < MaxConnects
    /\ Deliver(on_connect(rc))
    /\ connected' = (rc = 0)
    /\ nConnects' = IF rc = 0 THEN nConnects + 1 ELSE nConnects
    /\ event' = Event("connect", rc, "", <<>>)

\* The connection is lost; loop_forever will try to connect again.
Disconnect(rc) ==
    /\ pc = "loop"
    /\ connected
    /\ Deliver(on_disconnect(rc))
    /\ connected' = FALSE
    /\ event' = Event("disconnect", rc, "", <<>>)
    /\ UNCHANGED nConnects

\* A message arrives.  on_message is handed any topic and any bytes.
Message(d) ==
    /\ pc = "loop"
    /\ connected
    /\ Deliver(d.r)
    /\ event' = Event("message", 0, d.topic, d.payload)
    /\ UNCHANGED << connected, nConnects >>

\* KeyboardInterrupt in loop_forever: main prints, client.disconnect(), returns.
Interrupt ==
    /\ pc = "loop"
    /\ pc' = "exited"
    /\ out' = << [l |-> "Disconnecting"] >>
    /\ subs' = <<>>
    /\ connected' = FALSE
    /\ event' = Event("interrupt", 0, "", <<>>)
    /\ UNCHANGED << exitCode, nConnects, subscribeCalls, raised >>

Next ==
    \/ MainConnect
    \/ MainConnectError
    \/ \E rc \in ReturnCodes : Connect(rc)
    \/ \E rc \in {0, 1, 7} : Disconnect(rc)
    \/ \E d \in Deliveries : Message(d)
    \/ Interrupt

Spec == Init /\ [][Next]_vars

\* ------------------------------------------------------------ claim helpers
IsMessageOn(topic) == event.kind = "message" /\ event.topic = topic
ValidUtf8(payload) == \A i \in 1..Len(payload) : payload[i].t # "bad"
Parsed == json_loads(event.payload)
DecodesAsJson == ValidUtf8(event.payload) /\ Parsed.exc = "none"
DecodesAsObject == DecodesAsJson /\ Parsed.val.t = "obj"
LabelsOf(lines) == [i \in 1..Len(lines) |-> lines[i].l]
HasErrorLine == \E i \in 1..Len(out) : out[i].l = "Error processing message"
IsNumberField(key) == HasKey(Parsed.val, key) /\ Lookup(Parsed.val, key).t = "num"

DataLabels == << "Temperature", "Humidity", "Pressure", "Gas Resist.", "Gas Valid" >>
DataKeys == << "temperature", "humidity", "pressure", "gas_resistance", "gas_valid" >>
IaqLabels ==
    << "IAQ Score", "IAQ Level", "Accuracy", "CO2 Equiv.", "VOC Equiv.", "Calibrated" >>
HeaderLabels == << "rule", "Topic", "rule" >>

\* C1: no exception leaves on_message, whatever the topic and the bytes, and the
\* listening loop is still running after every delivered message.
C1_NoExceptionEscapes ==
    /\ raised = "none"
    /\ event.kind = "message" => pc = "loop" /\ connected

\* C1 witness: a JSON value that is no object arrived on a registry topic, the
\* AttributeError was reported and the loop goes on.
C1_Witness ==
    /\ event.kind = "message"
    /\ event.topic \in RegistryTopics
    /\ DecodesAsJson /\ Parsed.val.t # "obj"
    /\ out[Len(out)] = ErrorLine("AttributeError")
    /\ pc = "loop"

\* C2 (as claimed): a Data object with exactly one of the five fields absent and
\* the others well-formed prints all five lines, the absent one as N/A, and no
\* processing error.
C2_AbsentFieldRendersNA ==
    \A i \in 1..5 :
        ( /\ IsMessageOn("sensor/bme680/data")
          /\ DecodesAsObject
          /\ ~HasKey(Parsed.val, DataKeys[i])
          /\ \A j \in (1..4) \ {i} : IsNumberField(DataKeys[j])
          /\ i # 5 => HasKey(Parsed.val, "gas_valid") )
        => /\ LabelsOf(out) = HeaderLabels \o DataLabels
           /\ out[3 + i].v = "N/A"

\* C3: a numeric iaq_score s selects exactly one tier by inclusive upper bounds
\* 50, 100, 150 (s in tenths): in particular 50, 51, 100, 101, 150, 151 give
\* green, yellow, yellow, orange, orange, red.
ClaimedTier(s) ==
    IF s <= 500 THEN "green"
    ELSE IF 500 < s /\ s <= 1000 THEN "yellow"
    ELSE IF 1000 < s /\ s <= 1500 THEN "orange"
    ELSE "red"

C3_TierByInclusiveThreshold ==
    ( /\ IsMessageOn("sensor/bme680/iaq")
      /\ DecodesAsObject
      /\ IsNumberField("iaq_score") )
    => LET s == Lookup(Parsed.val, "iaq_score").n
       IN /\ Len(out) >= 4
          /\ out[4].l = "IAQ Score"
          /\ Cardinality({ i \in 1..Len(out) : out[i].l = "IAQ Score" }) = 1
          /\ out[4].ind = ClaimedTier(s)
          /\ s = 500 => out[4].ind = "green"
          /\ s = 510 => out[4].ind = "yellow"
          /\ s = 1000 => out[4].ind = "yellow"
          /\ s = 1010 => out[4].ind = "orange"
          /\ s = 1500 => out[4].ind = "orange"
          /\ s = 1510 => out[4].ind = "red"

\* C3 witness: the score 100 arrived and the yellow tier was printed.
C3_Witness ==
    /\ IsMessageOn("sensor/bme680/iaq")
    /\ DecodesAsObject
    /\ IsNumberField("iaq_score")
    /\ Lookup(Parsed.val, "iaq_score").n = 1000
    /\ out[4].ind = "yellow"

\* C4 (as claimed): an AirQuality object that lacks iaq_score, co2_equivalent or
\* voc_equivalent (the rest well-formed) computes the tier from 0 and prints the
\* missing field as N/A, with no processing error.
IaqNumberKeys == << "iaq_score", "co2_equivalent", "voc_equivalent" >>
IaqNumberLine == << 4, 7, 8 >>

C4_MissingNumberRendersNA ==
    \A i \in 1..3 :
        ( /\ IsMessageOn("sensor/bme680/iaq")
          /\ DecodesAsObject
          /\ ~HasKey(Parsed.val, IaqNumberKeys[i])
          /\ \A j \in (1..3) \ {i} : IsNumberField(IaqNumberKeys[j]) )
        => /\ LabelsOf(out) = HeaderLabels \o IaqLabels
           /\ out[IaqNumberLine[i]].v = "N/A"
           /\ i = 1 => out[4].ind = "green"

\* C5 (as claimed): every payload that does not decode as a JSON document, bytes
\* that are no text included, is reported as the raw payload and nothing else.
C5_UndecodableGivesRaw ==
    (event.kind = "message" /\ ~DecodesAsJson)
    => /\ Len(out) = 1
       /\ out[1].l = "Raw message"
       /\ raised = "none"

\* C5 (amended): a payload that is valid UTF-8 text but is no JSON document is
\* reported as its text and nothing else; a payload that is not valid UTF-8 is
\* reported as a one-line processing error.
C5_MalformedTextGivesRaw ==
    /\ (event.kind = "message" /\ ValidUtf8(event.payload) /\ Parsed.exc # "none")
       => /\ out = << [l |-> "Raw message", text |-> event.payload] >>
          /\ raised = "none"
    /\ (event.kind = "message" /\ ~ValidUtf8(event.payload))
       => /\ out = << ErrorLine("UnicodeDecodeError") >>
          /\ raised = "none"

\* C5 witness: a truncated status document arrived and was printed raw.
C5_Witness ==
    /\ IsMessageOn("sensor/bme680/status")
    /\ event.payload = SubSeq(OnlineDoc, 1, Len(OnlineDoc) - 1)
    /\ out[1].l = "Raw message"

\* C6 (as claimed): each registry topic is subscribed at most once in a run.
C6_SubscribedOncePerRun ==
    \A i, j \in 1..Len(subscribeCalls) :
        i # j => subscribeCalls[i][1] # subscribeCalls[j][1]

\* C6 (amended): subscribe requests come only from a successful connection
\* event, one per registry topic for each such event (a reconnection subscribes
\* again); connection-lost, refused-connection and message events issue none.
C6_SubscribeOnlyOnConnect ==
    /\ subs # <<>> => event.kind = "connect" /\ event.rc = 0
    /\ Len(subscribeCalls) = 4 * nConnects
    /\ \A i \in 1..Len(subscribeCalls) :
           subscribeCalls[i] = TOPICS[((i - 1) % 4) + 1]

\* C6 witness: the second successful connection has subscribed again.
C6_Witness ==
    /\ event.kind = "connect"
    /\ nConnects = 2
    /\ Len(subscribeCalls) = 8
    /\ subscribeCalls[5] = subscribeCalls[1]

\* C7: a successful connection event subscribes to the four registry topics in
\* registry order, each at level 0; a refused one subscribes to nothing.
C7_ConnectSubscribesRegistry ==
    event.kind = "connect" =>
        IF event.rc = 0
        THEN /\ subs = << << "sensor/bme680/data", 0 >>, << "sensor/bme680/iaq", 0 >>,
                          << "sensor/bme680/status", 0 >>,
                          << "sensor/bme680/alert", 0 >> >>
             /\ SubSeq(subscribeCalls, Len(subscribeCalls) - 3, Len(subscribeCalls))
                = subs
             /\ connected
        ELSE /\ subs = <<>>
             /\ ~connected

\* C7 witness: the first connection succeeded and the four requests went out.
C7_Witness ==
    /\ event.kind = "connect"
    /\ event.rc = 0
    /\ Len(subs) = 4
    /\ nConnects = 1

\* C8: a topic that is not exactly a registry topic, with a payload that decodes
\* as JSON, gets the header and the whole document pretty-printed; never an
\* error line, never a topic-specific line.
C8_UnknownTopicFallsBack ==
    ( /\ event.kind = "message"
      /\ event.topic \notin { "sensor/bme680/data", "sensor/bme680/iaq",
                              "sensor/bme680/status", "sensor/bme680/alert" }
      /\ DecodesAsJson )
    => /\ LabelsOf(out) = HeaderLabels \o << "Payload" >>
       /\ ValidUtf8(out[4].doc)
       /\ json_loads(out[4].doc) = Parsed
       /\ raised = "none"

\* C8 witness: a complete Data document arrived on a case variant of the Data
\* topic and was printed by the fallback.
C8_Witness ==
    /\ IsMessageOn("Sensor/BME680/Data")
    /\ event.payload = Doc(DataFields)
    /\ Len(out) = 4
    /\ out[4].l = "Payload"

\* C9: a Status object prints the status and the client identifier, with the
\* positive marker exactly when status is the string "online"; an absent status
\* prints as "unknown" with the negative marker.
C9_StatusMarker ==
    ( /\ IsMessageOn("sensor/bme680/status")
      /\ DecodesAsObject )
    => LET p == Parsed.val
       IN /\ LabelsOf(out) = HeaderLabels \o << "Status", "Client ID" >>
          /\ out[4].ind = IF HasKey(p, "status") /\ Lookup(p, "status") = Str("online")
                          THEN "green" ELSE "red"
          /\ out[4].v = IF HasKey(p, "status") THEN PyStr(Lookup(p, "status"))
                        ELSE "unknown"
          /\ out[5].v = IF HasKey(p, "client_id") THEN PyStr(Lookup(p, "client_id"))
                        ELSE "unknown"
          /\ event.payload = OnlineDoc
             => out[4].ind = "green" /\ out[4].v = "online" /\ out[5].v = "esp32-01"

\* C9 witness: {"status":"online","client_id":"esp32-01"} arrived.
C9_Witness ==
    /\ IsMessageOn("sensor/bme680/status")
    /\ event.payload = OnlineDoc
    /\ out[4].ind = "green"
    /\ out[5].v = "esp32-01"

\* C10 (as claimed): when formatting a decoded payload raises, the output of the
\* call is the single processing-error line.
C10_ErrorReportIsOnlyLine ==
    (event.kind = "message" /\ DecodesAsJson /\ HasErrorLine) => Len(out) = 1

\* The first numeric Data field that does not format (absent or no number), or 0.
FirstBadDataField ==
    IF \E j \in 1..4 : ~IsNumberField(DataKeys[j])
    THEN CHOOSE j \in 1..4 :
            /\ ~IsNumberField(DataKeys[j])
            /\ \A h \in 1..(j - 1) : IsNumberField(DataKeys[h])
    ELSE 0

\* C10 (amended): when formatting a decoded payload raises, the exception is
\* caught and reported in one error line, the last line of the call's output;
\* the header and the field lines printed before the failing field stay ahead
\* of it.  For a Data object whose first unformattable field is the i-th, the
\* output is the header, the first i-1 field lines and the error line.
C10_ErrorLineAfterPartialReport ==
    /\ (event.kind = "message" /\ DecodesAsJson /\ HasErrorLine)
       => /\ raised = "none"
          /\ Len(out) >= 4
          /\ LabelsOf(SubSeq(out, 1, 3)) = HeaderLabels
          /\ \A i \in 1..Len(out) :
                 (out[i].l = "Error processing message") <=> (i = Len(out))
          /\ out[Len(out)].v \in {"ValueError", "TypeError", "AttributeError"}
    /\ (IsMessageOn("sensor/bme680/data") /\ DecodesAsObject /\ FirstBadDataField # 0)
       => LabelsOf(out) = HeaderLabels \o SubSeq(DataLabels, 1, FirstBadDataField - 1)
                          \o << "Error processing message" >>

\* C10 witness: a Data object with a string for pressure printed the header,
\* temperature and humidity, then the error line.
C10_Witness ==
    /\ IsMessageOn("sensor/bme680/data")
    /\ DecodesAsObject
    /\ FirstBadDataField = 3
    /\ HasKey(Parsed.val, "pressure")
    /\ Len(out) = 6
    /\ out[6] = ErrorLine("ValueError")

====
